---- MODULE Spec2Model ----
(***************************************************************************)
(* A model of platformio_helpers: the path resolvers and the environment   *)
(* lister (__init__.py), the development link manager (develop.py) and the *)
(* upload orchestrator (upload.py).                                        *)
(*                                                                         *)
(* The file system is modelled by the entries the code reads and writes:   *)
(*   - <prefix>/share/platformio/bin/<package>   (layout "cur")            *)
(*   - the deprecated <=0.5 binary directory     (layout "05")             *)
(*   - <prefix>/share/platformio/include and the entries link() puts there *)
(*   - each working tree: lib/, .pioenvs/, .pioenvs/platformio.ini         *)
(* A junction (symlink) is followed by exists(): the configuration file    *)
(* reached through the binaries link lives in the working tree's .pioenvs. *)
(***************************************************************************)
EXTENDS Integers, Sequences, FiniteSets, TLC

\* ---------------------------------------------------------------- bounds
\* Number of distinct file names, and of directory names, a working lib
\* directory may hold.
MaxLibNames == 1
\* Most build-environment subdirectories of a project binaries directory
\* when it is listed (MaxEnvs) and when it is uploaded from (MaxCandidates).
MaxEnvs == 3
MaxCandidates == 2
\* Number of names mkdtemp can draw a fresh temporary directory from.
MaxTmp == 2

\* ------------------------------------------------------------- universes
WorkDirs == {"A", "B"}
Systems == {"Linux", "Darwin", "Windows", "Other"}
Absent == "absent"
RealDir == "dir"
NoErr == "none"
\* Search order of the binary directory layouts (current, then deprecated).
Layouts == <<"cur", "05">>
LayoutSet == {"cur", "05"}

LibFileNames == {<<"file", i>> : i \in 1..MaxLibNames}
LibDirNames == {<<"dir", i>> : i \in 1..MaxLibNames}
LibNames == LibFileNames \cup LibDirNames
NoEntry == [kind |-> "none", to |-> "none"]

\* Directory names are strings, modelled as sequences of code points so that
\* sorted() can compare them; some are prefixes of others.
EnvName(i) == IF i % 2 = 1 THEN <<(i + 1) \div 2>> ELSE <<i \div 2, i \div 2>>
EnvNames(k) == {EnvName(i) : i \in 1..k}
IniName == <<0>>
NoName == <<>>

\* Directories the process can be in, and the temporary ones.
HomeDir == [kind |-> "dir", id |-> 0]
ProjDir == [kind |-> "dir", id |-> -1]
TmpDirs == {[kind |-> "dir", id |-> i] : i \in 1..MaxTmp}
Prefixes == {"/opt/conda", "C:/conda"}
Callbacks == {"none", "returns", "raises"}
ReturnCodes == {0, 1}

\* All enumeration orders of a finite set (listdir order is unspecified).
Orders(S) == {s \in [1..Cardinality(S) -> S] : \A i, j \in 1..Cardinality(S) : s[i] = s[j] => i = j}

\* system: platform.system().  fs: the file system (see FsStates).
\* last, prev: the two most recent link/unlink calls, each with the links
\* that existed when it was entered (history, kept for the properties).
\* cwd: the process working directory.  tmp: the temporary directories
\* that exist.  res: the outcome of the most recent resolver, lister or
\* upload call.
VARIABLES system, fs, last, prev, cwd, tmp, res

vars == <<system, fs, last, prev, cwd, tmp, res>>

\* ------------------------------------------------------- path resolvers
\* platform.system() is one of the values the deprecated resolvers accept.
Recognized(sys) == sys \in {"Linux", "Darwin", "Windows"}

NoExc == [type |-> "none"]
Returns(v) == [exc |-> NoExc, value |-> v]
Raises(t) == [exc |-> [type |-> t], value |-> <<>>]

\* Variant: an unrecognized platform falls through to the Unix-like path.
CondaBinPath05Fallthrough(sys, prefix) == IF sys = "Windows" THEN Returns(<<prefix, "Library", "bin", "platformio">>)
                                          ELSE Returns(<<prefix, "bin", "platformio">>)

\* __init__.py 14-30.  `raise f'...'` raises a str, which Python turns into
\* TypeError (exceptions must derive from BaseException).
CondaArduinoIncludePath05(sys, prefix) == IF sys \in {"Linux", "Darwin"} THEN Returns(<<prefix, "include", "Arduino">>)
                                          ELSE IF sys = "Windows" THEN Returns(<<prefix, "Library", "include", "Arduino">>)
                                          ELSE Raises("TypeError")

\* __init__.py 33-51.
CondaBinPath05(sys, prefix) == IF sys \in {"Linux", "Darwin"} THEN Returns(<<prefix, "bin", "platformio">>)
                               ELSE IF sys = "Windows" THEN Returns(<<prefix, "Library", "bin", "platformio">>)
                               ELSE Raises("TypeError")

\* __init__.py 54-69: the same on all platforms.
CondaArduinoIncludePath(sys, prefix) == Returns(<<prefix, "share", "platformio", "include">>)

\* __init__.py 72-88: the same on all platforms.
CondaBinPath(sys, prefix) == Returns(<<prefix, "share", "platformio", "bin">>)

\* --------------------------------------------------------- link manager
\* path.exists() of <bin path of layout l>/<package>; junctions created by
\* link() always point at an existing .pioenvs directory.
BinExists(f, l) == f.bin[l] # Absent

\* path.exists() of <bin path of layout l>/<package>/platformio.ini.
ConfigExists(f, l) == CASE f.bin[l] = Absent -> FALSE
                        [] f.bin[l] = RealDir -> f.dirIni[l]
                        [] OTHER -> f.work[f.bin[l]].pioIni # Absent

\* conda uninstall of the package (and its -dev split) when it is installed:
\* the package manager removes the files the package installed.
UninstallPackage(f) == [f EXCEPT !.bin = [l \in LayoutSet |-> IF f.bin[l] = RealDir THEN Absent ELSE f.bin[l]],
                                 !.dirIni = [l \in LayoutSet |-> FALSE]]

\* develop.py 77-83: junction <bin>/<package> -> <working>/.pioenvs.
LinkBin(f, wd) == IF BinExists(f, "cur") THEN f
                  ELSE [f EXCEPT !.work[wd].pioenvs = TRUE, !.bin["cur"] = wd]

\* Variant: the configuration file is linked into the working tree's own
\* .pioenvs instead of through <bin>/<package>.
LinkConfigInWorkingDir(f, wd) == IF f.work[wd].pioIni # Absent THEN f
                                 ELSE [f EXCEPT !.work[wd].pioIni = wd]

\* develop.py 85-87: hard link of <working>/platformio.ini at
\* <bin>/<package>/platformio.ini, which is reached through the junction.
LinkConfig(f, wd) == IF ConfigExists(f, "cur") THEN f
                     ELSE IF f.bin["cur"] = RealDir THEN [f EXCEPT !.dirIni["cur"] = TRUE]
                     ELSE [f EXCEPT !.work[f.bin["cur"]].pioIni = wd]

\* develop.py 98-101: one file of the working lib directory.
LinkLibFile(f, wd, n) == LET removed == IF f.inc[n] # NoEntry THEN [f EXCEPT !.inc[n] = NoEntry] ELSE f
                         IN  IF removed.inc[n] # NoEntry THEN [removed EXCEPT !.err = "FileExistsError"]
                             ELSE [removed EXCEPT !.inc[n] = [kind |-> "file", to |-> wd]]

\* Variant: an existing junction of the same name is not removed first.
LinkLibDirNoRemove(f, wd, n) == IF f.inc[n] # NoEntry THEN [f EXCEPT !.err = "FileExistsError"]
                                ELSE [f EXCEPT !.inc[n] = [kind |-> "junction", to |-> wd]]

\* develop.py 103-106: one subdirectory of the working lib directory.
LinkLibDir(f, wd, n) == LET removed == IF f.inc[n].kind = "junction" THEN [f EXCEPT !.inc[n] = NoEntry] ELSE f
                        IN  IF removed.inc[n] # NoEntry THEN [removed EXCEPT !.err = "FileExistsError"]
                            ELSE [removed EXCEPT !.inc[n] = [kind |-> "junction", to |-> wd]]

RECURSIVE LinkLibFiles(_, _, _)
LinkLibFiles(f, wd, order) == IF order = <<>> \/ f.err # NoErr THEN f
                              ELSE LinkLibFiles(LinkLibFile(f, wd, Head(order)), wd, Tail(order))

RECURSIVE LinkLibDirs(_, _, _)
LinkLibDirs(f, wd, order) == IF order = <<>> \/ f.err # NoErr THEN f
                             ELSE LinkLibDirs(LinkLibDir(f, wd, Head(order)), wd, Tail(order))

\* develop.py 92-106: skipped entirely when the working tree has no lib.
LinkLib(f, wd, fileOrder, dirOrder) == IF ~f.work[wd].lib \/ f.err # NoErr THEN f
                                       ELSE LinkLibDirs(LinkLibFiles([f EXCEPT !.incExists = TRUE], wd, fileOrder), wd, dirOrder)

\* develop.py 15-112: link(working_dir, package_name).
LinkFn(f, wd, fileOrder, dirOrder) == LinkLib(LinkConfig(LinkBin(UninstallPackage([f EXCEPT !.err = NoErr]), wd), wd), wd, fileOrder, dirOrder)

\* ------------------------------------------------------------- unlink
\* develop.py 153-158: the first layout whose <bin>/<package> exists.
RECURSIVE FirstExisting(_, _)
FirstExisting(f, layouts) == IF layouts = <<>> THEN "none"
                             ELSE IF BinExists(f, Head(layouts)) THEN Head(layouts)
                             ELSE FirstExisting(f, Tail(layouts))

\* develop.py 160-164: remove the configuration file, then the binaries
\* link.  path.unlink() of a real directory raises OSError.
UnlinkBin(f) == LET l == FirstExisting(f, Layouts)
                    t == f.bin[l]
                    noIni == IF ~ConfigExists(f, l) THEN f
                             ELSE IF t = RealDir THEN [f EXCEPT !.dirIni[l] = FALSE]
                             ELSE [f EXCEPT !.work[t].pioIni = Absent]
                IN  IF l = "none" THEN f
                    ELSE IF t = RealDir THEN [noIni EXCEPT !.err = "OSError"]
                    ELSE [noIni EXCEPT !.bin[l] = Absent]

\* develop.py 171-178: the inner break leaves only the inner loop, the outer
\* loop never breaks, so its else clause always runs: include_dir = None.
UnlinkIncludeDir(f) == "none"

\* develop.py 180-186: remove the links of the working lib entries.
UnlinkLib(f, wd) == IF f.err # NoErr \/ UnlinkIncludeDir(f) = "none" \/ ~f.work[wd].lib THEN f
                    ELSE [f EXCEPT !.inc = [n \in LibNames |->
                            IF n \in f.work[wd].libFiles \cup f.work[wd].libDirs THEN NoEntry ELSE f.inc[n]]]

\* develop.py 115-191: unlink(working_dir, package_name).  Line 153 builds
\* the tuple (conda_bin_path(), conda_bin_path_05()) first: the deprecated
\* resolver raises on an unrecognized platform (raising a str: TypeError).
UnlinkFn(f, wd, sys) == IF CondaBinPath05(sys, "prefix").exc # NoExc THEN [f EXCEPT !.err = CondaBinPath05(sys, "prefix").exc.type]
                        ELSE UnlinkLib(UnlinkBin([f EXCEPT !.err = NoErr]), wd)

\* --------------------------------------------------- environment lister
\* path.isdir() of <bin path of layout l>/<project> (follows a junction).
IsDir(f, l) == f.bin[l] = RealDir \/ (f.bin[l] \in WorkDirs /\ f.work[f.bin[l]].pioenvs)

\* The entries of <bin path of layout l>/<project>: one subdirectory per
\* build environment, and platformio.ini when present.
Entries(f, l) == {[name |-> n, isdir |-> TRUE] : n \in (IF f.bin[l] = RealDir THEN f.envs ELSE f.work[f.bin[l]].envs)}
                 \cup (IF ConfigExists(f, l) THEN {[name |-> IniName, isdir |-> FALSE]} ELSE {})

\* path.dirs(): the subdirectories, in the order the listing gives them.
DirsOf(listing) == SelectSeq(listing, LAMBDA e : e.isdir)
NamesOf(entries) == [i \in 1..Len(entries) |-> entries[i].name]

\* Python's str comparison: code point by code point, a proper prefix first.
RECURSIVE LexLess(_, _)
LexLess(a, b) == IF b = <<>> THEN FALSE
                 ELSE IF a = <<>> THEN TRUE
                 ELSE IF Head(a) # Head(b) THEN Head(a) < Head(b)
                 ELSE LexLess(Tail(a), Tail(b))

RECURSIVE Insert(_, _)
Insert(x, sortedSeq) == IF sortedSeq = <<>> THEN <<x>>
                        ELSE IF LexLess(x, Head(sortedSeq)) THEN <<x>> \o sortedSeq
                        ELSE <<Head(sortedSeq)>> \o Insert(x, Tail(sortedSeq))

\* Variant: the names are returned in listing order.
Unsorted(names) == names

\* sorted(list of str).
RECURSIVE Sorted(_)
Sorted(names) == IF names = <<>> THEN <<>> ELSE Insert(Head(names), Sorted(Tail(names)))

\* __init__.py 91-125: available_environments(project_name).
AvailableEnvironmentsFn(f, listing) == IF ~IsDir(f, "cur") THEN Raises("NameError")
                                                   ELSE Returns(Sorted(NamesOf(DirsOf(listing))))

\* ---------------------------------------------------------------- upload
\* upload.py 18-23: UploadError.__init__(self, command, working_dir).
UploadError(command, working_dir) == [type |-> "UploadError", command |-> command, working_dir |-> working_dir]

\* upload.py 219-225: sp.list2cmdline(command).
CmdLine(env_name, extra_args) == [kind |-> "cmdline", exe |-> "run-in pio run", env |-> env_name,
                                  targets |-> <<"upload", "nobuild">>, extra |-> extra_args]

\* Variant: the else of the on_error test is missing, so the exception is
\* raised after the callback too.
UploadBodyAlwaysRaise(u, tempdir, iniOk, envOk, rc, on_error, cmdline) ==
    LET u1 == [u EXCEPT !.cwd = tempdir]
        u2 == [u1 EXCEPT !.ran = TRUE, !.rc = rc]
        e == [type |-> "UploadError", command |-> tempdir, working_dir |-> cmdline]
    IN  IF ~iniOk \/ ~envOk THEN [u1 EXCEPT !.exc = [type |-> "IOError"]]
        ELSE IF rc = 0 THEN u2
        ELSE IF on_error # "none"
             THEN [u2 EXCEPT !.made = @ + 1, !.cb = @ + 1, !.cbArg = e,
                             !.exc = IF on_error = "raises" THEN [type |-> "CallbackError"] ELSE e]
             ELSE [u2 EXCEPT !.made = @ + 1, !.exc = e]

\* upload.py 204-236: the body of the try statement.  u.exc is the exception
\* that leaves it.
UploadBody(u, tempdir, iniOk, envOk, rc, on_error, cmdline) ==
    LET u1 == [u EXCEPT !.cwd = tempdir]
        u2 == [u1 EXCEPT !.ran = TRUE, !.rc = rc]
        e == UploadError(tempdir, cmdline)
    IN  IF ~iniOk \/ ~envOk THEN [u1 EXCEPT !.exc = [type |-> "IOError"]]
        ELSE IF rc = 0 THEN u2
        ELSE IF on_error # "none"
             THEN [u2 EXCEPT !.made = @ + 1, !.cb = @ + 1, !.cbArg = e,
                             !.exc = IF on_error = "raises" THEN [type |-> "CallbackError"] ELSE NoExc]
             ELSE [u2 EXCEPT !.made = @ + 1, !.exc = e]

\* Variant: the cleanup follows the try statement instead of being its
\* finally clause, so an exception skips it.
UploadCleanupAfterTry(u, original_dir, tempdir) == IF u.exc # NoExc THEN u
                                                   ELSE [u EXCEPT !.cwd = original_dir, !.tmp = @ \ {tempdir}]

\* upload.py 237-239: the finally clause.
UploadFinally(u, original_dir, tempdir) == [u EXCEPT !.cwd = original_dir, !.tmp = @ \ {tempdir}]

NoUpload == [cwd |-> HomeDir, tmp |-> {}, exc |-> NoExc, ran |-> FALSE, rc |-> 0, made |-> 0, cb |-> 0, cbArg |-> NoExc,
             attempted |-> FALSE, tempdir |-> HomeDir, cmdline |-> NoName, env |-> NoName, onError |-> "none"]

\* upload.py 198: tmp.mkdtemp() returns a directory that did not exist; which
\* fresh name it draws does not matter to the caller.
MkDTemp(t) == CHOOSE d \in TmpDirs \ t : \A e \in TmpDirs \ t : d.id <= e.id

\* upload.py 135-239: upload(project_dir, env_name, ..., on_error).
UploadFn(c, t, iniOk, envOk, env_name, extra_args, rc, on_error) ==
    LET tempdir == MkDTemp(t)
        u0 == [NoUpload EXCEPT !.cwd = c, !.tmp = t \cup {tempdir}, !.attempted = TRUE, !.tempdir = tempdir,
                               !.cmdline = CmdLine(env_name, extra_args), !.env = env_name, !.onError = on_error]
    IN  UploadFinally(UploadBody(u0, tempdir, iniOk, envOk, rc, on_error, CmdLine(env_name, extra_args)), c, tempdir)

\* upload.py 119-124: the first layout whose <bin>/<project> is a directory.
RECURSIVE FirstDir(_, _)
FirstDir(f, layouts) == IF layouts = <<>> THEN "none"
                        ELSE IF IsDir(f, Head(layouts)) THEN Head(layouts)
                        ELSE FirstDir(f, Tail(layouts))

\* The subdirectories of the project directory upload_conda finds.
CondaDirs(f) == IF FirstDir(f, Layouts) = "none" THEN {}
                ELSE {e \in Entries(f, FirstDir(f, Layouts)) : e.isdir}

\* Variant: the first candidate is taken whenever there is one.
SingleCandidateAny(dirs) == Len(dirs) >= 1

\* upload.py 127: exactly one build environment.
SingleCandidate(dirs) == Len(dirs) = 1

\* upload.py 86-132: upload_conda(project_name, env_name, extra_args).
\* dirs is <project dir>.dirs(), in the order the file system gives it.
UploadCondaFn(f, sys, c, t, dirs, envArg, extra_args, rc, on_error) ==
    LET l == FirstDir(f, Layouts)
        env_name == IF envArg # NoName THEN envArg ELSE dirs[1].name
        none == [NoUpload EXCEPT !.cwd = c, !.tmp = t]
    IN  IF CondaBinPath05(sys, "prefix").exc # NoExc
          THEN [up |-> [none EXCEPT !.exc = CondaBinPath05(sys, "prefix").exc], dir |-> "none", listed |-> <<>>]
        ELSE IF l = "none"
          THEN [up |-> [none EXCEPT !.exc = [type |-> "IOError"]], dir |-> "none", listed |-> <<>>]
        ELSE IF envArg = NoName /\ ~SingleCandidate(dirs)
          THEN [up |-> [none EXCEPT !.exc = [type |-> "ValueError"]], dir |-> l, listed |-> NamesOf(dirs)]
        ELSE [up |-> UploadFn(c, t, ConfigExists(f, l), env_name \in {e.name : e \in CondaDirs(f)},
                              env_name, extra_args, rc, on_error),
              dir |-> l, listed |-> <<>>]

\* ----------------------------------------------------------- histories
\* The links of the environment root: the binaries entry of each layout,
\* the configuration file seen through it, and the include entries.
Links(f) == [bin |-> f.bin,
             cfg |-> [l \in LayoutSet |-> IF f.bin[l] \in WorkDirs THEN f.work[f.bin[l]].pioIni
                                          ELSE IF f.bin[l] = RealDir /\ f.dirIni[l] THEN "installed" ELSE Absent],
             incExists |-> f.incExists,
             inc |-> f.inc]

NoRes == [op |-> "none", exc |-> NoExc, value |-> <<>>, arg |-> "none", entryCwd |-> HomeDir, dir |-> "none",
          listed |-> <<>>, up |-> NoUpload]
NoCall == [op |-> "none", wd |-> "none", err |-> NoErr, pre |-> "none", preWork |-> "none"]
NoPrev == [op |-> "none", wd |-> "none", err |-> NoErr, pre |-> "none"]
Older(c) == [op |-> c.op, wd |-> c.wd, err |-> c.err, pre |-> c.pre]
Call(op, wd, f, g) == [op |-> op, wd |-> wd, err |-> g.err, pre |-> Links(f), preWork |-> f.work]

\* ------------------------------------------------------------- actions
Link(wd) == \E fo \in Orders(fs.work[wd].libFiles), do \in Orders(fs.work[wd].libDirs) :
              LET g == LinkFn(fs, wd, fo, do)
              IN  /\ fs' = g
                  /\ last' = Call("link", wd, fs, g)
                  /\ prev' = Older(last)
                  /\ UNCHANGED <<system, cwd, tmp, res>>

Unlink(wd) == LET g == UnlinkFn(fs, wd, system)
              IN  /\ fs' = g
                  /\ last' = Call("unlink", wd, fs, g)
                  /\ prev' = Older(last)
                  /\ UNCHANGED <<system, cwd, tmp, res>>

ResolvePath == \E prefix \in Prefixes :
                 \E r \in {[op |-> "conda_arduino_include_path_05", out |-> CondaArduinoIncludePath05(system, prefix)],
                           [op |-> "conda_bin_path_05", out |-> CondaBinPath05(system, prefix)],
                           [op |-> "conda_arduino_include_path", out |-> CondaArduinoIncludePath(system, prefix)],
                           [op |-> "conda_bin_path", out |-> CondaBinPath(system, prefix)]} :
                   /\ res' = [NoRes EXCEPT !.op = r.op, !.exc = r.out.exc, !.value = r.out.value, !.arg = prefix]
                   /\ UNCHANGED <<system, fs, last, prev, cwd, tmp>>

AvailableEnvironments == \E listing \in (IF IsDir(fs, "cur") THEN Orders(Entries(fs, "cur")) ELSE {<<>>}) :
                           LET out == AvailableEnvironmentsFn(fs, listing)
                           IN  /\ res' = [NoRes EXCEPT !.op = "available_environments", !.exc = out.exc, !.value = out.value]
                               /\ UNCHANGED <<system, fs, last, prev, cwd, tmp>>

\* upload() of a working tree (ini_path and pioenvs_path left at their
\* defaults: <working>/platformio.ini and <working>/.pioenvs).
Upload(wd) == \E env_name \in EnvNames(MaxCandidates), rc \in ReturnCodes, on_error \in Callbacks :
                LET u == UploadFn(cwd, tmp, TRUE, fs.work[wd].pioenvs /\ env_name \in fs.work[wd].envs,
                                  env_name, <<>>, rc, on_error)
                IN  /\ TmpDirs \ tmp # {}
                    /\ cwd' = u.cwd
                    /\ tmp' = u.tmp
                    /\ res' = [NoRes EXCEPT !.op = "upload", !.exc = u.exc, !.arg = env_name, !.entryCwd = cwd,
                                            !.dir = wd, !.up = u]
                    /\ UNCHANGED <<system, fs, last, prev>>

UploadConda == \E envArg \in EnvNames(MaxCandidates) \cup {NoName}, rc \in ReturnCodes, on_error \in Callbacks :
                 \E dirs \in Orders(CondaDirs(fs)) :
                   LET r == UploadCondaFn(fs, system, cwd, tmp, dirs, envArg, <<>>, rc, on_error)
                   IN  /\ TmpDirs \ tmp # {}
                       /\ cwd' = r.up.cwd
                       /\ tmp' = r.up.tmp
                       /\ res' = [NoRes EXCEPT !.op = "upload_conda", !.exc = r.up.exc, !.arg = envArg, !.entryCwd = cwd,
                                               !.dir = r.dir, !.listed = r.listed, !.up = r.up]
                       /\ UNCHANGED <<system, fs, last, prev>>

\* ---------------------------------------------------------------- init
\* A working tree has no lib directory, or one holding the first k file
\* names and the first m directory names.
LibShapes == {[lib |-> FALSE, libFiles |-> {}, libDirs |-> {}]}
             \cup {[lib |-> TRUE, libFiles |-> {<<"file", i>> : i \in 1..k}, libDirs |-> {<<"dir", i>> : i \in 1..m}] :
                     k \in 0..MaxLibNames, m \in 0..MaxLibNames}

WorkTrees == {[lib |-> s.lib, libFiles |-> s.libFiles, libDirs |-> s.libDirs, pioenvs |-> p, pioIni |-> Absent, envs |-> {}] :
                s \in LibShapes, p \in BOOLEAN}

\* Before the first call nothing made by link() exists: each layout holds
\* no package directory or the directory of an installed Conda package.
FsStates == {[work |-> w, bin |-> b, dirIni |-> [l \in LayoutSet |-> b[l] = RealDir],
              envs |-> {}, incExists |-> FALSE, inc |-> [n \in LibNames |-> NoEntry], err |-> NoErr] :
               w \in [WorkDirs -> WorkTrees], b \in [LayoutSet -> {Absent, RealDir}]}

InitLink == /\ system \in Systems
            /\ fs \in FsStates
            /\ last = NoCall
            /\ prev = NoPrev
            /\ cwd = HomeDir
            /\ tmp = {}
            /\ res = NoRes

NextLink == \E wd \in WorkDirs : Link(wd) \/ Unlink(wd)

SpecLink == InitLink /\ [][NextLink]_vars

\* The package is installed (a real directory) in the current layout, the
\* deprecated one, both or neither, with or without its platformio.ini, or
\* working tree A, already built, is linked in the current layout.
BuiltTrees(E, ini) == [A |-> [lib |-> FALSE, libFiles |-> {}, libDirs |-> {}, pioenvs |-> TRUE,
                              pioIni |-> IF ini THEN "A" ELSE Absent, envs |-> E],
                       B |-> [lib |-> FALSE, libFiles |-> {}, libDirs |-> {}, pioenvs |-> FALSE, pioIni |-> Absent, envs |-> {}]]

InstalledFs(E, ini, b) == [work |-> BuiltTrees(E, ini), bin |-> b, dirIni |-> [l \in LayoutSet |-> b[l] = RealDir /\ ini],
                           envs |-> E, incExists |-> FALSE, inc |-> [n \in LibNames |-> NoEntry], err |-> NoErr]

InitEnv == /\ system \in Systems
           /\ fs \in {InstalledFs(E, ini, b) : E \in SUBSET EnvNames(MaxEnvs), ini \in BOOLEAN,
                        b \in {x \in [LayoutSet -> {Absent, RealDir, "A"}] : x["05"] # "A"}}
           /\ last = NoCall
           /\ prev = NoPrev
           /\ cwd = HomeDir
           /\ tmp = {}
           /\ res = NoRes

NextEnv == ResolvePath \/ AvailableEnvironments

SpecEnv == InitEnv /\ [][NextEnv]_vars

InitUpload == /\ system \in Systems
              /\ fs \in {InstalledFs(EnvNames(k), ini, b) : k \in 0..MaxCandidates, ini \in BOOLEAN,
                           b \in [LayoutSet -> {Absent, RealDir}]}
              /\ last = NoCall
              /\ prev = NoPrev
              /\ cwd \in {HomeDir, ProjDir}
              /\ tmp = {}
              /\ res = NoRes

NextUpload == (\E wd \in WorkDirs : Upload(wd)) \/ UploadConda

SpecUpload == InitUpload /\ [][NextUpload]_vars

\* ------------------------------------------------- link manager claims
\* No binaries entry in either layout and no include entry.
NothingLinked(pre) == /\ \A l \in LayoutSet : pre.bin[l] = Absent
                      /\ \A n \in LibNames : pre.inc[n] = NoEntry

\* No binaries entry is a link into a working tree and no include entry
\* exists (the package may be installed).
NoLinks(pre) == /\ \A l \in LayoutSet : pre.bin[l] \notin WorkDirs
                /\ \A n \in LibNames : pre.inc[n] = NoEntry

LibEntries(wd) == fs.work[wd].libFiles \cup fs.work[wd].libDirs

\* C1: link followed immediately by unlink of the same working tree, started
\* with nothing linked, leaves the binaries link, the configuration-file
\* link and every include link absent again, as before link.
C1_LinkUnlinkRestores == (/\ prev.op = "link" /\ last.op = "unlink" /\ prev.wd = last.wd
                          /\ prev.err = NoErr /\ last.err = NoErr /\ NothingLinked(prev.pre))
                         => /\ Links(fs).bin = prev.pre.bin
                            /\ Links(fs).cfg = prev.pre.cfg
                            /\ Links(fs).inc = prev.pre.inc

\* C2: after link(wd) every link of the package in the environment root (the
\* binaries link, the configuration-file link, each include link named
\* after an entry of wd/lib) points into wd, whatever existed before.
C2_LinksPointToWorkingTree == (last.op = "link" /\ last.err = NoErr)
                              => /\ fs.bin["cur"] \in WorkDirs => fs.bin["cur"] = last.wd
                                 /\ Links(fs).cfg["cur"] \in {Absent, last.wd}
                                 /\ \A n \in LibEntries(last.wd) : fs.inc[n].to = last.wd

\* C3: two link calls in succession on the same working tree both complete
\* without error, and the second leaves the links (names and targets) of
\* the environment root exactly as the first left them.
C3_LinkTwiceSameAsOnce == (prev.op = "link" /\ last.op = "link" /\ prev.wd = last.wd)
                          => /\ prev.err = NoErr
                             /\ last.err = NoErr
                             /\ Links(fs) = last.pre

C3_Witness == /\ prev.op = "link" /\ last.op = "link" /\ prev.wd = last.wd
              /\ fs.work[last.wd].libFiles # {} /\ fs.work[last.wd].libDirs # {}
              /\ \A n \in LibEntries(last.wd) : last.pre.inc[n].to = last.wd /\ fs.inc[n].to = last.wd
              /\ fs.bin["cur"] = last.wd

\* C6 (as stated): link leaves every entry of the working tree, .pioenvs
\* and its contents included, as it was.
C6_LinkLeavesWorkingTree == last.op = "link" => fs.work = last.preWork

\* C6 (amended): link never changes lib or its contents and never removes
\* a working-tree entry; it can only create <working>/.pioenvs when missing
\* and add platformio.ini inside the .pioenvs directory that
\* <bin>/<package> points to.
C6_LinkOnlyAddsPioenvs == last.op = "link" =>
                            \A w \in WorkDirs :
                              /\ fs.work[w].lib = last.preWork[w].lib
                              /\ fs.work[w].libFiles = last.preWork[w].libFiles
                              /\ fs.work[w].libDirs = last.preWork[w].libDirs
                              /\ fs.work[w].pioenvs # last.preWork[w].pioenvs
                                    => w = last.wd /\ fs.work[w].pioenvs /\ fs.bin["cur"] = w
                              /\ fs.work[w].pioIni # last.preWork[w].pioIni
                                    => last.preWork[w].pioIni = Absent /\ fs.work[w].pioIni = last.wd /\ fs.bin["cur"] = w

C6_Witness == /\ last.op = "link" /\ last.err = NoErr
              /\ ~last.preWork[last.wd].pioenvs /\ fs.work[last.wd].pioenvs
              /\ last.preWork[last.wd].pioIni = Absent /\ fs.work[last.wd].pioIni = last.wd
              /\ LibEntries(last.wd) # {}

\* C7: on a recognized platform every link and unlink call completes
\* without error, and an unlink entered with nothing linked leaves the
\* environment root unchanged.
C7_CallsNeverFail == (Recognized(system) /\ last.op # "none")
                     => /\ last.err = NoErr
                        /\ (last.op = "unlink" /\ NoLinks(last.pre)) => Links(fs) = last.pre

\* ------------------------------------------------------ upload claims
\* C4: whenever upload created its temporary directory, on return or raise
\* (exit status 0, UploadError raised, callback returned or raised, copy
\* failed) that directory is gone and the working directory is the one at
\* entry.
C4_UploadCleansUp == (res.op \in {"upload", "upload_conda"} /\ res.up.attempted)
                     => /\ cwd = res.entryCwd
                        /\ res.up.tempdir \notin tmp
                        /\ tmp = {}

C4_Witness == /\ res.op = "upload" /\ res.up.attempted
              /\ res.up.ran /\ res.up.onError = "raises" /\ res.exc.type = "CallbackError"
              /\ res.entryCwd = ProjDir /\ cwd = ProjDir /\ tmp = {}

\* C5: once the external command has returned: a non-zero status with a
\* callback calls the callback exactly once with an UploadError and upload
\* raises no UploadError (it returns when the callback returns); a non-zero
\* status without a callback raises UploadError; status 0 constructs no
\* UploadError, calls no callback and returns.
C5_CallbackOrRaise == (res.op \in {"upload", "upload_conda"} /\ res.up.ran)
                      => /\ (res.up.rc # 0 /\ res.up.onError # "none")
                              => /\ res.up.cb = 1 /\ res.up.made = 1
                                 /\ res.up.cbArg.type = "UploadError"
                                 /\ res.exc.type # "UploadError"
                                 /\ res.up.onError = "returns" => res.exc = NoExc
                         /\ (res.up.rc # 0 /\ res.up.onError = "none")
                              => res.exc.type = "UploadError" /\ res.up.cb = 0 /\ res.up.made = 1
                         /\ res.up.rc = 0
                              => res.exc = NoExc /\ res.up.cb = 0 /\ res.up.made = 0

C5_Witness == /\ res.op = "upload" /\ res.up.ran /\ res.up.rc # 0
              /\ res.up.onError = "returns" /\ res.up.cb = 1 /\ res.exc = NoExc

\* C8: upload_conda without an environment name, on a recognized platform
\* and with the project directory found: exactly one subdirectory makes
\* its name the environment uploaded; two or more fail with the
\* ambiguous-environment error (ValueError) that lists every candidate,
\* and upload is not entered.
C8_ResolveEnvironment == (res.op = "upload_conda" /\ res.arg = NoName /\ Recognized(system) /\ res.dir # "none")
                         => LET cands == {e.name : e \in CondaDirs(fs)}
                            IN  /\ Cardinality(cands) = 1
                                     => res.up.attempted /\ res.up.env \in cands /\ res.exc.type # "ValueError"
                                /\ Cardinality(cands) >= 2
                                     => /\ res.exc.type = "ValueError"
                                        /\ {res.listed[i] : i \in 1..Len(res.listed)} = cands
                                        /\ Len(res.listed) = Cardinality(cands)
                                        /\ ~res.up.attempted /\ tmp = {} /\ cwd = res.entryCwd

C8_Witness == /\ res.op = "upload_conda" /\ res.arg = NoName /\ Recognized(system)
              /\ res.exc.type = "ValueError" /\ Len(res.listed) >= 2 /\ res.dir = "05"

\* The UploadError the most recent upload produced: the callback's argument
\* when a callback was given, the exception raised otherwise.
ProducedError == IF res.up.onError # "none" THEN res.up.cbArg ELSE res.exc

\* C11: every UploadError upload produces carries the temporary directory
\* of that invocation in working_dir and the executed command line in
\* command.
C11_UploadErrorFields == (res.op \in {"upload", "upload_conda"} /\ res.up.made > 0)
                         => /\ ProducedError.type = "UploadError"
                            /\ ProducedError.working_dir = res.up.tempdir
                            /\ ProducedError.command = res.up.cmdline

\* ------------------------------------------- resolver and lister claims
ResolverOps == {"conda_arduino_include_path_05", "conda_bin_path_05", "conda_arduino_include_path", "conda_bin_path"}

C10_SortedSubdirectories == (res.op = "available_environments" /\ IsDir(fs, "cur"))
                            => LET names == {e.name : e \in {x \in Entries(fs, "cur") : x.isdir}}
                                   v == res.value
                               IN  /\ res.exc = NoExc
                                   /\ {v[i] : i \in 1..Len(v)} = names
                                   /\ Len(v) = Cardinality(names)
                                   /\ \A i, j \in 1..Len(v) : i < j => LexLess(v[i], v[j])

C10_Witness == /\ res.op = "available_environments" /\ IsDir(fs, "cur")
               /\ Len(res.value) >= 3 /\ ConfigExists(fs, "cur")

====
